---- MODULE Spec2Model ----
(***************************************************************************)
(* Range-aware streaming/download proxy and session-credential cache of    *)
(* the MovieBox API server.  Three implementations are modelled:           *)
(*   "axios"  - Express + axios + cookie jar   (src/unnamed/part_000)      *)
(*   "node"   - Express + native fetch         (src/index.js, 1-468)       *)
(*   "worker" - Cloudflare Worker              (src/index.js, 470-1275)    *)
(* The variable `variant` selects the implementation a behaviour runs.     *)
(***************************************************************************)
EXTENDS Integers, Sequences, FiniteSets, TLC

\* ------------------------------------------------------------------ bounds
\* Largest resource length the CDN stub reports.
MaxSize == 3
\* Longest text following "bytes=" in a client Range header.
MaxHdrLen == 3

\* ------------------------------------------------------- JavaScript numbers
\* A JS number is an integer or NaN.
Num(n) == [nan |-> FALSE, v |-> n]
NaN == [nan |-> TRUE, v |-> 0]
isNaN(x) == x.nan
\* Relational operators: every comparison with NaN is false.
Lt(a, b) == ~a.nan /\ ~b.nan /\ a.v < b.v
Gt(a, b) == ~a.nan /\ ~b.nan /\ a.v > b.v
Ge(a, b) == ~a.nan /\ ~b.nan /\ a.v >= b.v
\* Arithmetic: NaN is contagious.
Sub(a, b) == IF a.nan \/ b.nan THEN NaN ELSE Num(a.v - b.v)
Add(a, b) == IF a.nan \/ b.nan THEN NaN ELSE Num(a.v + b.v)
\* Truthiness of a number: 0 and NaN are falsy.
Truthy(x) == ~x.nan /\ x.v # 0

\* ------------------------------------------------------------ header text
\* Header text is a sequence of characters.  "," stands for any character
\* that is neither a decimal digit nor "-".
Digits == {"0", "1", "2", "3", "4", "5", "6", "7", "8", "9"}
DigitVal(c) ==
    CASE c = "0" -> 0 [] c = "1" -> 1 [] c = "2" -> 2 [] c = "3" -> 3
      [] c = "4" -> 4 [] c = "5" -> 5 [] c = "6" -> 6 [] c = "7" -> 7
      [] c = "8" -> 8 [] c = "9" -> 9
DigitChar(n) ==
    CASE n = 0 -> "0" [] n = 1 -> "1" [] n = 2 -> "2" [] n = 3 -> "3"
      [] n = 4 -> "4" [] n = 5 -> "5" [] n = 6 -> "6" [] n = 7 -> "7"
      [] n = 8 -> "8" [] n = 9 -> "9"

\* Template-literal formatting of a non-negative integer: `${n}`.
RECURSIVE ToDec(_)
ToDec(n) == IF n < 10 THEN <<DigitChar(n)>>
            ELSE Append(ToDec(n \div 10), DigitChar(n % 10))

\* Length of the longest prefix of s made of decimal digits.
RECURSIVE DigitPrefixLen(_)
DigitPrefixLen(s) ==
    IF s = <<>> \/ Head(s) \notin Digits THEN 0
    ELSE 1 + DigitPrefixLen(Tail(s))

RECURSIVE DecValue(_)
DecValue(s) == IF s = <<>> THEN 0
               ELSE 10 * DecValue(SubSeq(s, 1, Len(s) - 1)) + DigitVal(s[Len(s)])

\* parseInt(s, 10) on text without whitespace or sign: the value of the
\* leading digits, NaN when there are none; trailing text is ignored.
parseInt(s) ==
    LET k == DigitPrefixLen(s)
    IN IF k = 0 THEN NaN ELSE Num(DecValue(SubSeq(s, 1, k)))

\* String.prototype.split('-').
RECURSIVE SplitDash(_)
SplitDash(s) ==
    IF \A i \in 1..Len(s) : s[i] # "-" THEN <<s>>
    ELSE LET i == CHOOSE j \in 1..Len(s) :
                     s[j] = "-" /\ \A k \in 1..(j - 1) : s[k] # "-"
         IN <<SubSeq(s, 1, i - 1)>> \o SplitDash(SubSeq(s, i + 1, Len(s)))


\* ------------------------------------------------------------ proxy state
Variants == {"axios", "node", "worker"}

VARIABLES
    variant,    \* the implementation this behaviour runs
    pc,         \* position of the request's handler between its awaits
    req,        \* the inbound request: mode, url query parameter, Range header
    fileSize,   \* handler local: total length learned from the probe
    win,        \* handler local: start/end of the negotiated byte window
    resp,       \* the client response as built so far
    calls,      \* upstream CDN calls issued for this request, in order
    bodyStatus, \* response.status of the upstream body response, 0 before it
    upstream,   \* the upstream body stream of the relay
    client,     \* the client connection
    produced,   \* number of chunks read from the upstream body so far
    buf,        \* chunks read from upstream and not yet written to the client
    delivered   \* chunks the client has received, in order of arrival

relayVars == <<bodyStatus, upstream, client, produced, buf, delivered>>
proxyVars == <<pc, req, fileSize, win, resp, calls, relayVars>>

\* ------------------------------------------------------- credential cache
\* Number of clock ticks that make up one cache lifetime.
TicksPerTTL == 2
\* Number of clock ticks a behaviour may take.
MaxTicks == 4
\* Number of bootstrap calls a behaviour may issue.
MaxBootstraps == 3

COOKIE_CACHE_DURATION == 3600000
ClockStep == COOKIE_CACHE_DURATION \div TicksPerTTL
\* Date.now() at process start: any value at least one lifetime after 0.
StartTime == COOKIE_CACHE_DURATION

\* Concurrent catalog requests (tasks running makeApiRequest).
Callers == {"r1", "r2"}

VARIABLES
    now,                 \* Date.now()
    cookieCache,         \* node/worker: cached credential string or null
    cookieCacheTime,     \* node/worker: time stamped on the cached credential
    cookiesInitialized,  \* axios: session bootstrap done
    jar,                 \* axios: cookies held by the cookie jar
    jarTime,             \* history: time the jar received its cookies
    cpc,                 \* per caller: position in makeApiRequest
    cnow,                \* per caller: `now` captured by its getCookies call
    ret,                 \* per caller: result of its last credential call
    bootstrapCalls,      \* number of bootstrap GETs issued so far
    api                  \* per caller: its catalog fetch and the route's answer

credVars == <<now, cookieCache, cookieCacheTime, cookiesInitialized, jar, jarTime,
              cpc, cnow, ret, bootstrapCalls, api>>
VARIABLES
    catalog              \* one call of the catalog request helper

vars == <<variant, pc, req, fileSize, win, resp, calls, relayVars,
          now, cookieCache, cookieCacheTime, cookiesInitialized, jar, jarTime,
          cpc, cnow, ret, bootstrapCalls, api, catalog>>

\* A URL is its scheme+host+"/" prefix and the rest; the missing query
\* parameter is the empty string.
NoUrl == [origin |-> "", path |-> ""]
Urls == {NoUrl,
         [origin |-> "https://bcdnw.hakunaymatata.com/", path |-> "v.mp4"],
         [origin |-> "https://bcdnxw.hakunaymatata.com/", path |-> "v.mp4"],
         [origin |-> "https://evil.example/", path |-> "v.mp4"]}
startsWith(u, prefix) == u.origin = prefix
UrlTruthy(u) == u # NoUrl

\* Client Range headers: absent, or "bytes=" followed by text.
HdrChars == {"0", "1", "2", "3", "-", ","}
HdrTexts == UNION {[1..n -> HdrChars] : n \in 0..MaxHdrLen}
NoRange == [present |-> FALSE, text |-> <<>>]
RangeHeaders == {NoRange} \cup {[present |-> TRUE, text |-> t] : t \in HdrTexts}

\* Allow-list of each handler.
StreamAllowedAxios(u) ==
    UrlTruthy(u) /\ (startsWith(u, "https://bcdnw.hakunaymatata.com/")
                     \/ startsWith(u, "https://valiw.hakunaymatata.com/"))
StreamAllowedNode(u) ==
    UrlTruthy(u) /\ (startsWith(u, "https://bcdnxw.hakunaymatata.com/")
                     \/ startsWith(u, "https://valiw.hakunaymatata.com/")
                     \/ startsWith(u, "https://bcdnw.hakunaymatata.com/"))
StreamAllowedWorker(u) ==
    UrlTruthy(u) /\ (startsWith(u, "https://bcdnw.hakunaymatata.com/")
                     \/ startsWith(u, "https://valiw.hakunaymatata.com/"))
DownloadAllowedAxios(u) ==
    UrlTruthy(u) /\ (startsWith(u, "https://bcdnw.hakunaymatata.com/")
                     \/ startsWith(u, "https://valiw.hakunaymatata.com/"))
DownloadAllowedNode(u) == UrlTruthy(u)
DownloadAllowedWorker(u) ==
    UrlTruthy(u) /\ (startsWith(u, "https://bcdnw.hakunaymatata.com/")
                     \/ startsWith(u, "https://valiw.hakunaymatata.com/"))

StreamAllowed(v, u) ==
    CASE v = "axios" -> StreamAllowedAxios(u)
      [] v = "node" -> StreamAllowedNode(u)
      [] v = "worker" -> StreamAllowedWorker(u)
DownloadAllowed(v, u) ==
    CASE v = "axios" -> DownloadAllowedAxios(u)
      [] v = "node" -> DownloadAllowedNode(u)
      [] v = "worker" -> DownloadAllowedWorker(u)

\* ------------------------------------------------------------- responses
\* contentLength / contentRange are <<>> when the header is not set.
\* contentLength is the framing header of a media response only.
NoWin == [start |-> Num(0), end |-> Num(0)]
Resp0 == [status |-> 0, contentLength |-> <<>>, contentRange |-> <<>>,
          acceptRanges |-> FALSE, disposition |-> FALSE,
          body |-> "none", sent |-> FALSE, ended |-> FALSE]

\* res.status(code).json({...}) / new Response(JSON.stringify({...}), {status})
JsonError(code) == [Resp0 EXCEPT !.status = code, !.body = "json",
                                 !.sent = TRUE, !.ended = TRUE]

\* `bytes ${start}-${end}/${fileSize}`
ContentRange(w, fs) == [star |-> FALSE, start |-> w.start, end |-> w.end, size |-> fs]
\* `bytes */${fileSize}`
ContentRangeStar(fs) == [star |-> TRUE, start |-> Num(0), end |-> Num(0), size |-> fs]

\* Upstream calls.
HeadCall(u) == [method |-> "HEAD", url |-> u, range |-> <<>>]
GetCall(u) == [method |-> "GET", url |-> u, range |-> <<>>]
\* Range: `bytes=${start}-${end}`
RangedGetCall(u, w) == [method |-> "GET", url |-> u, range |-> <<w>>]

\* --------------------------------------------------------- range handling
\* Mutant: the suffix form is not resolved against the length.
ResolveRangeNoSuffix(text, fs) ==
    LET parts == SplitDash(text)
    IN [start |-> parseInt(parts[1]),
        end |-> IF Len(parts) >= 2 /\ parts[2] # <<>>
                THEN parseInt(parts[2]) ELSE Sub(fs, Num(1))]

\* parts = range.replace(/bytes=/, '').split('-'); start = parseInt(parts[0]);
\* end = parts[1] ? parseInt(parts[1]) : fileSize - 1; then the suffix form.
ResolveRange(text, fs) ==
    LET parts == SplitDash(text)
        start0 == parseInt(parts[1])
        end0 == IF Len(parts) >= 2 /\ parts[2] # <<>>
                THEN parseInt(parts[2]) ELSE Sub(fs, Num(1))
        suffix == isNaN(start0) /\ ~isNaN(end0)
    IN [start |-> IF suffix THEN Sub(fs, end0) ELSE start0,
        end |-> IF suffix THEN Sub(fs, Num(1)) ELSE end0]

\* Validation of the resolved window.
RangeInvalidAxios(w, fs) ==
    isNaN(w.start) \/ isNaN(w.end) \/ Lt(w.start, Num(0))
        \/ Ge(w.end, fs) \/ Gt(w.start, w.end)
RangeInvalidNode(w, fs) == Ge(w.start, fs) \/ Gt(w.start, w.end)
RangeInvalidWorker(w, fs) ==
    isNaN(w.start) \/ isNaN(w.end) \/ Lt(w.start, Num(0))
        \/ Ge(w.end, fs) \/ Gt(w.start, w.end)
RangeInvalid(v, w, fs) ==
    CASE v = "axios" -> RangeInvalidAxios(w, fs)
      [] v = "node" -> RangeInvalidNode(w, fs)
      [] v = "worker" -> RangeInvalidWorker(w, fs)

\* Mutant: the window length without the inclusive end.
ChunkSizeExclusive(w) == Sub(w.end, w.start)

\* chunkSize = (end - start) + 1
ChunkSize(w) == Add(Sub(w.end, w.start), Num(1))

\* 416 response of each variant.
Resp416Axios(fs) == [JsonError(416) EXCEPT !.contentRange = <<ContentRangeStar(fs)>>]
Resp416Node(fs) == [Resp0 EXCEPT !.status = 416, !.body = "none", !.sent = TRUE,
                                 !.ended = TRUE,
                                 !.contentRange = <<ContentRangeStar(fs)>>]
\* Mutant: the 416 of the worker without its Content-Range header.
Resp416WorkerBare(fs) == JsonError(416)
Resp416Worker(fs) == [JsonError(416) EXCEPT !.contentRange = <<ContentRangeStar(fs)>>]
Resp416(v, fs) ==
    CASE v = "axios" -> Resp416Axios(fs)
      [] v = "node" -> Resp416Node(fs)
      [] v = "worker" -> Resp416Worker(fs)

\* 206 / 200 media response headers.
PartialResp(w, fs, disp) ==
    [Resp0 EXCEPT !.status = 206, !.contentLength = <<ChunkSize(w)>>,
                  !.contentRange = <<ContentRange(w, fs)>>,
                  !.acceptRanges = TRUE, !.disposition = disp, !.sent = TRUE]
\* Mutant: the full response framed with the last byte index as its length.
FullRespOffByOne(fs, disp) ==
    [Resp0 EXCEPT !.status = 200, !.contentLength = <<Sub(fs, Num(1))>>,
                  !.acceptRanges = TRUE, !.disposition = disp, !.sent = TRUE]
FullResp(fs, disp) ==
    [Resp0 EXCEPT !.status = 200, !.contentLength = <<fs>>,
                  !.acceptRanges = TRUE, !.disposition = disp, !.sent = TRUE]


\* ------------------------------------------------------------- CDN stub
\* What the CDN answers to the metadata probe: the call fails (connection
\* error; for axios also a non-2xx status), or a response whose
\* Content-Length (HEAD) / Content-Range total (ranged GET) is the decimal
\* text of the resource size, or carries no such header.
ProbeOutcomes ==
    {[fail |-> TRUE, hasLen |-> FALSE, size |-> 0]}
        \cup {[fail |-> FALSE, hasLen |-> FALSE, size |-> 0]}
        \cup {[fail |-> FALSE, hasLen |-> TRUE, size |-> n] : n \in 0..MaxSize}
\* Statuses the CDN answers a body GET with: the whole resource, the
\* requested window, an error.
BodyStatuses == {200, 206, 404}
\* What the CDN answers to the body GET: the call fails (connection error),
\* or a response with a status and the headers of a probe response.
BodyOutcomes ==
    {[fail |-> TRUE, hasLen |-> FALSE, size |-> 0, status |-> 0]}
        \cup {[fail |-> FALSE, hasLen |-> o.hasLen, size |-> o.size, status |-> s] :
                o \in {p \in ProbeOutcomes : ~p.fail}, s \in BodyStatuses}
\* Whether awaiting the body GET throws: fetch rejects on a connection
\* error only; axios, called without validateStatus, also rejects every
\* status outside 200..299.
BodyRejects(v, o) ==
    o.fail \/ (v = "axios" /\ o.status \notin 200..299)

\* parseInt(headResponse.headers.get('content-length'))
ProbedSize(o) == IF o.hasLen THEN parseInt(ToDec(o.size)) ELSE NaN

\* ----------------------------------------------------------- the handlers
\* /api/stream up to its first await: allow-list, then the HEAD probe.
StreamRequest(u, r) ==
    /\ pc = "idle"
    /\ req' = [mode |-> "stream", url |-> u, range |-> r]
    /\ IF ~StreamAllowed(variant, u)
       THEN /\ resp' = JsonError(400)
            /\ pc' = "done"
            /\ calls' = calls
       ELSE /\ calls' = Append(calls, HeadCall(u))
            /\ pc' = "probe"
            /\ resp' = resp
    /\ UNCHANGED <<variant, fileSize, win, relayVars, credVars, catalog>>

\* /api/download up to its first await.  The axios variant issues the body
\* GET at once, without a probe; the others probe with HEAD.
DownloadRequest(u, r) ==
    /\ pc = "idle"
    /\ req' = [mode |-> "download", url |-> u, range |-> r]
    /\ IF ~DownloadAllowed(variant, u)
       THEN /\ resp' = JsonError(400)
            /\ pc' = "done"
            /\ calls' = calls
       ELSE IF variant = "axios"
            THEN /\ calls' = Append(calls, GetCall(u))
                 /\ pc' = "body"
                 /\ resp' = resp
            ELSE /\ calls' = Append(calls, HeadCall(u))
                 /\ pc' = "probe"
                 /\ resp' = resp
    /\ UNCHANGED <<variant, fileSize, win, relayVars, credVars, catalog>>

\* The handler from the point where fileSize is known up to the await of
\* the body GET (or to the response that ends it): stream in every variant,
\* download in the worker variant.
Negotiate(fs) ==
    /\ fileSize' = fs
    /\ IF ~Truthy(fs)
       THEN /\ resp' = JsonError(500)
            /\ pc' = "done"
            /\ UNCHANGED <<win, calls>>
       ELSE IF req.range.present
            THEN LET w == ResolveRange(req.range.text, fs)
                 IN /\ win' = w
                    /\ IF RangeInvalid(variant, w, fs)
                       THEN /\ resp' = Resp416(variant, fs)
                            /\ pc' = "done"
                            /\ calls' = calls
                       ELSE /\ calls' = Append(calls, RangedGetCall(req.url, w))
                            /\ pc' = "body"
                            \* node: res.writeHead(206) precedes the fetch
                            /\ resp' = IF variant = "node"
                                       THEN PartialResp(w, fs, FALSE)
                                       ELSE resp
            ELSE /\ win' = win
                 /\ calls' = Append(calls, GetCall(req.url))
                 /\ pc' = "body"
                 \* node: res.writeHead(200) precedes the fetch
                 /\ resp' = IF variant = "node" THEN FullResp(fs, FALSE) ELSE resp

\* /api/download of the node variant after its HEAD: headers are set from
\* the probe as they are, the Range header is not read, the GET is unranged.
NodeDownloadAfterHead(o) ==
    /\ fileSize' = ProbedSize(o)
    /\ resp' = [resp EXCEPT !.disposition = TRUE,
                            !.contentLength = IF o.hasLen THEN <<ProbedSize(o)>>
                                              ELSE <<>>]
    /\ calls' = Append(calls, GetCall(req.url))
    /\ pc' = "body"
    /\ win' = win

\* The HEAD probe returns.
ProbeReturn(o) ==
    /\ pc = "probe"
    /\ IF o.fail
       THEN IF variant = "axios"
            THEN \* catch (headError): GET with Range: bytes=0-0
                 /\ calls' = Append(calls,
                        RangedGetCall(req.url, [start |-> Num(0), end |-> Num(0)]))
                 /\ pc' = "fallback"
                 /\ UNCHANGED <<fileSize, win, resp>>
            ELSE \* fetch rejects: the handler's / dispatcher's catch
                 /\ resp' = JsonError(500)
                 /\ pc' = "done"
                 /\ UNCHANGED <<fileSize, win, calls>>
       ELSE IF variant = "node" /\ req.mode = "download"
            THEN NodeDownloadAfterHead(o)
            ELSE Negotiate(ProbedSize(o))
    /\ UNCHANGED <<variant, req, relayVars, credVars, catalog>>

\* axios: the bytes=0-0 fallback probe returns.
FallbackReturn(o) ==
    /\ pc = "fallback"
    /\ IF o.fail
       THEN /\ resp' = JsonError(500)
            /\ pc' = "done"
            /\ UNCHANGED <<fileSize, win, calls>>
       ELSE Negotiate(ProbedSize(o))
    /\ UNCHANGED <<variant, req, relayVars, credVars, catalog>>

\* The body GET returns: the response headers are completed and the
\* upstream body is piped to the client.
BodyReturn(o) ==
    /\ pc = "body"
    /\ IF BodyRejects(variant, o)
       THEN /\ upstream' = upstream
            /\ bodyStatus' = bodyStatus
            /\ IF variant = "node" /\ req.mode = "stream"
               THEN \* headers already sent: the catch only logs
                    /\ pc' = "done"
                    /\ resp' = resp
               ELSE /\ pc' = "done"
                    /\ resp' = [JsonError(500) EXCEPT !.disposition = resp.disposition]
       ELSE /\ pc' = "relay"
            /\ upstream' = "open"
            /\ bodyStatus' = o.status
            /\ resp' =
                IF variant = "node"
                THEN IF req.mode = "stream"
                     THEN [resp EXCEPT !.body = "stream"]
                     ELSE [resp EXCEPT !.status = 200, !.body = "stream", !.sent = TRUE]
                ELSE IF variant = "axios" /\ req.mode = "download"
                THEN [Resp0 EXCEPT !.status = 200, !.disposition = TRUE,
                                   !.contentLength = <<ProbedSize(o)>>,
                                   !.body = "stream", !.sent = TRUE]
                ELSE IF req.range.present
                THEN [PartialResp(win, fileSize, req.mode = "download")
                        EXCEPT !.body = "stream"]
                ELSE [FullResp(fileSize, req.mode = "download")
                        EXCEPT !.body = "stream"]
    /\ UNCHANGED <<variant, req, fileSize, win, calls, client, produced, buf,
                   delivered, credVars, catalog>>

\* ------------------------------------------------------------ the relay
\* Longest upstream body, in chunks.
MaxChunks == 3
\* Chunks the client response buffers before write() returns false.
HighWaterMark == 1

\* Mutant: the source is read whatever the destination has buffered.
PipeFlowingAlways(b) == TRUE

\* readable.pipe(res) / new Response(response.body): the source is read
\* while the destination accepts data and is paused while its buffer is
\* full, until the destination drains.
PipeFlowing(b) == Len(b) < HighWaterMark

\* res.headersSent of the Express variants during the relay: writeHead has
\* run (node stream) or the pipe has written its first chunk.
HeadersSent ==
    resp.ended \/ (variant = "node" /\ req.mode = "stream") \/ produced > 0

\* Whether the handler ends the upstream stream when the client goes away:
\* res.on('close', () => response.data.destroy()) in the axios download
\* handler; in the worker the runtime cancels the body it was handed.  The
\* other handlers only pipe, and pipe unpipes without destroying its source.
DestroysOnClose ==
    (variant = "axios" /\ req.mode = "download") \/ variant = "worker"

\* The pipe reads one chunk from the upstream body and writes it to res.
UpstreamData ==
    /\ pc = "relay" /\ upstream = "open" /\ client = "open"
    /\ PipeFlowing(buf)
    /\ produced < MaxChunks
    /\ produced' = produced + 1
    /\ buf' = Append(buf, produced + 1)
    /\ UNCHANGED <<variant, bodyStatus, pc, req, fileSize, win, resp, calls, upstream,
                   client, delivered, credVars, catalog>>

\* The client connection takes the oldest buffered chunk; the response is
\* complete when the ended response has nothing left to write.
ClientWrite ==
    /\ pc = "relay" /\ client = "open"
    /\ buf # <<>>
    /\ delivered' = Append(delivered, Head(buf))
    /\ buf' = Tail(buf)
    /\ pc' = IF upstream = "ended" /\ Tail(buf) = <<>> THEN "done" ELSE pc
    /\ UNCHANGED <<variant, bodyStatus, req, fileSize, win, resp, calls, upstream, client,
                   produced, credVars, catalog>>

\* The upstream body ends: the pipe calls res.end().
UpstreamEnd ==
    /\ pc = "relay" /\ upstream = "open" /\ client = "open"
    /\ upstream' = "ended"
    /\ resp' = [resp EXCEPT !.ended = TRUE]
    /\ pc' = IF buf = <<>> THEN "done" ELSE pc
    /\ UNCHANGED <<variant, bodyStatus, req, fileSize, win, calls, client, produced, buf,
                   delivered, credVars, catalog>>

\* The upstream body stream errors.  The axios download handler has an
\* 'error' listener: it logs, and answers 500 only while no header has been
\* sent; the pipe does not end res.  The other Express handlers have no
\* listener on the source: the 'error' event is thrown as an uncaught
\* exception and the process goes down with its connections.  In the
\* worker the runtime aborts the response whose body errored.
UpstreamError ==
    /\ pc = "relay" /\ upstream = "open" /\ client = "open"
    /\ upstream' = "errored"
    /\ IF variant = "axios" /\ req.mode = "download"
       THEN IF ~HeadersSent
            THEN /\ resp' = [JsonError(500) EXCEPT !.disposition = TRUE]
                 /\ pc' = "done"
                 /\ client' = client
            ELSE UNCHANGED <<resp, pc, client>>
       ELSE /\ client' = "reset"
            /\ pc' = "done"
            /\ resp' = resp
    /\ UNCHANGED <<variant, bodyStatus, req, fileSize, win, calls, produced, buf, delivered,
                   credVars, catalog>>

\* The client disconnects during the relay.
ClientClose ==
    /\ pc = "relay" /\ client = "open"
    /\ client' = "closed"
    /\ pc' = "done"
    /\ upstream' = IF upstream = "open" /\ DestroysOnClose THEN "destroyed"
                   ELSE upstream
    /\ UNCHANGED <<variant, bodyStatus, req, fileSize, win, resp, calls, produced, buf,
                   delivered, credVars, catalog>>

ProxyInit ==
    /\ pc = "idle"
    /\ req = [mode |-> "none", url |-> NoUrl, range |-> NoRange]
    /\ fileSize = NaN
    /\ win = NoWin
    /\ resp = Resp0
    /\ calls = <<>>
    /\ bodyStatus = 0
    /\ upstream = "none"
    /\ client = "open"
    /\ produced = 0
    /\ buf = <<>>
    /\ delivered = <<>>


\* --------------------------------------------- credential cache: values
\* A string-or-null value.
Null == [set |-> FALSE, val |-> <<>>]
Str(t) == [set |-> TRUE, val |-> t]
\* Truthiness of a string-or-null: null and "" are falsy.
StrTruthy(x) == x.set /\ x.val # <<>>

\* cookie.split(';')[0]
BeforeSemi(s) ==
    IF \A i \in 1..Len(s) : s[i] # ";" THEN s
    ELSE LET i == CHOOSE j \in 1..Len(s) :
                     s[j] = ";" /\ \A k \in 1..(j - 1) : s[k] # ";"
         IN SubSeq(s, 1, i - 1)

\* String.prototype.trim()
RECURSIVE TrimLeft(_)
TrimLeft(s) == IF s # <<>> /\ Head(s) = " " THEN TrimLeft(Tail(s)) ELSE s
RECURSIVE TrimRight(_)
TrimRight(s) == IF s # <<>> /\ s[Len(s)] = " "
                THEN TrimRight(SubSeq(s, 1, Len(s) - 1)) ELSE s
Trim(s) == TrimRight(TrimLeft(s))

\* Array.prototype.join('; ')
RECURSIVE JoinSemi(_)
JoinSemi(list) ==
    IF list = <<>> THEN <<>>
    ELSE IF Len(list) = 1 THEN list[1]
    ELSE list[1] \o <<";", " ">> \o JoinSemi(Tail(list))

\* setCookieHeaders.map(c => c.split(';')[0].trim()).join('; ')
CookieString(headers) ==
    JoinSemi([i \in 1..Len(headers) |-> Trim(BeforeSemi(headers[i]))])

\* Set-Cookie header lists a bootstrap response may carry.
SetCookieSamples ==
    {<<>>,
     <<<<"a", "=", "1", ";", " ", "P">>>>,
     <<<<"a", "=", "2">>, <<" ", "b", "=", "1", " ", ";", "P", ";", "Q">>>>}
\* A bootstrap call fails, or returns a response with its Set-Cookie
\* headers; getSetCookie tells whether response.headers has that method
\* (Node's fetch has it from 18.14.1 / 19.7 on).
BootstrapOutcomes ==
    {[fail |-> TRUE, setCookie |-> <<>>, getSetCookie |-> TRUE]}
        \cup {[fail |-> FALSE, setCookie |-> h, getSetCookie |-> g] :
                  h \in SetCookieSamples, g \in BOOLEAN}

\* Headers.get(name): the values of all headers of that name joined by ", "
RECURSIVE JoinComma(_)
JoinComma(list) ==
    IF list = <<>> THEN <<>>
    ELSE IF Len(list) = 1 THEN list[1]
    ELSE list[1] \o <<",", " ">> \o JoinComma(Tail(list))

\* The array setCookieHeaders that getCookies derives from the response.
\* node: getSetCookie() if the method exists, else get('set-cookie'), a
\* single joined string (null without any Set-Cookie header) wrapped in an
\* array.  worker: getSetCookie(), else the set-cookie entries of the
\* header iterator.
SetCookieHeaders(v, o) ==
    IF v = "node" /\ ~o.getSetCookie /\ o.setCookie # <<>>
    THEN <<JoinComma(o.setCookie)>>
    ELSE o.setCookie

\* Result of a credential call: what it returned and how many bootstrap
\* GETs it issued.
NoResult == [kind |-> "none", val |-> <<>>, boots |-> 0]
Returned(x, n) ==
    [kind |-> IF x.set THEN "string" ELSE "null", val |-> x.val, boots |-> n]

\* One endpoint request: whether its catalog fetch was issued, the Cookie
\* header the fetch carried (Null: no Cookie header), the status the route
\* answered with (0: not answered yet), whether the credential operation
\* logged a bootstrap failure with console.error, and the number of
\* Set-Cookie headers it found on the bootstrap response.
NoApi == [issued |-> FALSE, cookie |-> Null, status |-> 0, logged |-> FALSE,
          setCookieHeaders |-> 0, setCookieReceived |-> 0]
\* if (cookies) headers['Cookie'] = cookies; fetch(url, {...options, headers})
CatalogCall(cookies) ==
    [issued |-> TRUE, cookie |-> IF StrTruthy(cookies) THEN cookies ELSE Null,
     status |-> 0, logged |-> FALSE, setCookieHeaders |-> 0,
     setCookieReceived |-> 0]
\* What the upstream catalog API does with the fetch: it settles or rejects.
CatalogOutcomes == {[fail |-> FALSE], [fail |-> TRUE]}

\* Mutant: an empty cache is served as it is while its timestamp is young
\* or nothing was ever cached (negative caching).
CacheFreshOrEmpty(cache, t, time) ==
    ~StrTruthy(cache) \/ (time - t) < COOKIE_CACHE_DURATION

\* Mutant: the age comparison the wrong way round.
CacheFreshFlipped(cache, t, time) ==
    StrTruthy(cache) /\ (time - t) > COOKIE_CACHE_DURATION

\* cookieCache && (now - cookieCacheTime) < COOKIE_CACHE_DURATION
CacheFresh(cache, t, time) ==
    StrTruthy(cache) /\ (time - t) < COOKIE_CACHE_DURATION

\* node/worker: makeApiRequest calls getCookies, up to its await of the
\* bootstrap fetch, or through to the catalog fetch on the fast path.
GetCookies(c) ==
    /\ variant \in {"node", "worker"}
    /\ cpc[c] = "idle"
    /\ cnow' = [cnow EXCEPT ![c] = now]
    /\ IF CacheFresh(cookieCache, cookieCacheTime, now)
       THEN /\ ret' = [ret EXCEPT ![c] = Returned(cookieCache, 0)]
            /\ cpc' = [cpc EXCEPT ![c] = "catalog"]
            /\ bootstrapCalls' = bootstrapCalls
            /\ api' = [api EXCEPT ![c] = CatalogCall(cookieCache)]
       ELSE /\ bootstrapCalls < MaxBootstraps
            /\ bootstrapCalls' = bootstrapCalls + 1
            /\ cpc' = [cpc EXCEPT ![c] = "bootstrap"]
            /\ ret' = [ret EXCEPT ![c] = NoResult]
            /\ api' = [api EXCEPT ![c] = NoApi]
    /\ UNCHANGED <<variant, proxyVars, catalog, now, cookieCache, cookieCacheTime,
                   cookiesInitialized, jar, jarTime>>

\* Mutant: a response without Set-Cookie overwrites the cache with "".
CacheAfterOverwrite(cache, headers) == Str(CookieString(headers))

\* Mutant: a refresh appends to the cached string instead of replacing it.
CacheAfterAppend(cache, headers) ==
    IF Len(headers) > 0 THEN Str(cache.val \o CookieString(headers)) ELSE cache

\* if (setCookieHeaders.length > 0) { cookieCache = cookies; }
CacheAfter(cache, headers) ==
    IF Len(headers) > 0 THEN Str(CookieString(headers)) ELSE cache

\* node/worker: the bootstrap fetch of getCookies settles; makeApiRequest
\* goes on to the catalog fetch.
BootstrapReturn(c, o) ==
    /\ variant \in {"node", "worker"}
    /\ cpc[c] = "bootstrap"
    /\ cpc' = [cpc EXCEPT ![c] = "catalog"]
    /\ IF o.fail
       THEN \* catch: console.error('Failed to get cookies:'); return null
            /\ ret' = [ret EXCEPT ![c] = Returned(Null, 1)]
            /\ api' = [api EXCEPT ![c] = [CatalogCall(Null) EXCEPT !.logged = TRUE]]
            /\ UNCHANGED <<cookieCache, cookieCacheTime>>
       ELSE /\ cookieCache' = CacheAfter(cookieCache, SetCookieHeaders(variant, o))
            /\ cookieCacheTime' = IF Len(SetCookieHeaders(variant, o)) > 0
                                  THEN cnow[c]
                                  ELSE cookieCacheTime
            \* return cookieCache
            /\ ret' = [ret EXCEPT ![c] = Returned(cookieCache', 1)]
            /\ api' = [api EXCEPT ![c] =
                         [CatalogCall(cookieCache')
                            EXCEPT !.setCookieHeaders =
                                       Len(SetCookieHeaders(variant, o)),
                                   !.setCookieReceived = Len(o.setCookie)]]
    /\ UNCHANGED <<variant, proxyVars, catalog, now, cookiesInitialized, jar, jarTime,
                   cnow, bootstrapCalls>>

\* axios: makeApiRequest calls ensureCookiesAreAssigned.
EnsureCookiesAreAssigned(c) ==
    /\ variant = "axios"
    /\ cpc[c] = "idle"
    /\ IF cookiesInitialized
       THEN /\ ret' = [ret EXCEPT ![c] = [kind |-> "true", val |-> <<>>, boots |-> 0]]
            /\ cpc' = [cpc EXCEPT ![c] = "catalog"]
            /\ bootstrapCalls' = bootstrapCalls
            \* axiosInstance(config): the jar supplies the Cookie header
            /\ api' = [api EXCEPT ![c] = CatalogCall(jar)]
       ELSE /\ bootstrapCalls < MaxBootstraps
            /\ bootstrapCalls' = bootstrapCalls + 1
            /\ cpc' = [cpc EXCEPT ![c] = "bootstrap"]
            /\ ret' = [ret EXCEPT ![c] = NoResult]
            /\ api' = [api EXCEPT ![c] = NoApi]
    /\ UNCHANGED <<variant, proxyVars, catalog, now, cookieCache, cookieCacheTime,
                   cookiesInitialized, jar, jarTime, cnow>>

\* axios: the bootstrap GET settles; the cookie jar keeps what Set-Cookie
\* carried.  A failure is rethrown, makeApiRequest rejects and the route's
\* catch answers 500 without a catalog fetch.
EnsureReturn(c, o) ==
    /\ variant = "axios"
    /\ cpc[c] = "bootstrap"
    /\ IF o.fail
       THEN /\ ret' = [ret EXCEPT ![c] = [kind |-> "threw", val |-> <<>>, boots |-> 1]]
            /\ cpc' = [cpc EXCEPT ![c] = "idle"]
            /\ api' = [api EXCEPT ![c] = [NoApi EXCEPT !.status = 500,
                                                      !.logged = TRUE]]
            /\ UNCHANGED <<cookiesInitialized, jar, jarTime>>
       ELSE /\ cookiesInitialized' = TRUE
            /\ IF Len(o.setCookie) > 0
               THEN /\ jar' = Str(CookieString(o.setCookie))
                    /\ jarTime' = now
               ELSE UNCHANGED <<jar, jarTime>>
            /\ ret' = [ret EXCEPT ![c] = [kind |-> "true", val |-> <<>>, boots |-> 1]]
            /\ cpc' = [cpc EXCEPT ![c] = "catalog"]
            /\ api' = [api EXCEPT ![c] =
                         [CatalogCall(jar')
                            EXCEPT !.setCookieHeaders = Len(o.setCookie),
                                   !.setCookieReceived = Len(o.setCookie)]]
    /\ UNCHANGED <<variant, proxyVars, catalog, now, cookieCache, cookieCacheTime,
                   cnow, bootstrapCalls>>

\* The catalog fetch of makeApiRequest settles or rejects and the route
\* answers: res.json(...) or, from its catch, res.status(500).json(...).
CatalogReturn(c, o) ==
    /\ cpc[c] = "catalog"
    /\ cpc' = [cpc EXCEPT ![c] = "idle"]
    /\ api' = [api EXCEPT ![c].status = IF o.fail THEN 500 ELSE 200]
    /\ UNCHANGED <<variant, proxyVars, catalog, now, cookieCache, cookieCacheTime,
                   cookiesInitialized, jar, jarTime, cnow, ret, bootstrapCalls>>

\* Time passes.
Tick ==
    /\ now < StartTime + MaxTicks * ClockStep
    /\ now' = now + ClockStep
    /\ UNCHANGED <<variant, proxyVars, catalog, cookieCache, cookieCacheTime,
                   cookiesInitialized, jar, jarTime, cpc, cnow, ret, bootstrapCalls,
                   api>>

CredInit ==
    /\ now = StartTime
    /\ cookieCache = Null
    /\ cookieCacheTime = 0
    /\ cookiesInitialized = FALSE
    /\ jar = Null
    /\ jarTime = 0
    /\ cpc = [c \in Callers |-> "idle"]
    /\ cnow = [c \in Callers |-> 0]
    /\ ret = [c \in Callers |-> NoResult]
    /\ bootstrapCalls = 0
    /\ api = [c \in Callers |-> NoApi]

\* ------------------------------------------- the catalog request helper
\* Header names of the model: four of the base set, and the names the
\* route handlers pass in options.headers.
BaseHeaderNames == {"Accept-Language", "Referer", "Connection", "X-Real-IP"}
CallerHeaderNames == {"Referer", "Origin", "Content-Type", "X-Real-IP"}
\* const DEFAULT_HEADERS = {...}
DEFAULT_HEADERS ==
    [h \in BaseHeaderNames |->
        CASE h = "Accept-Language" -> "en-US,en;q=0.5"
          [] h = "Referer" -> "HOST_URL"
          [] h = "Connection" -> "keep-alive"
          [] h = "X-Real-IP" -> "1.1.1.1"]
\* An object is a function from its own keys.  options is {} or carries a
\* headers object; every caller value is written "caller".
NoHeaders == [h \in {} |-> "caller"]
NoOptions == [hasHeaders |-> FALSE, headers |-> NoHeaders]
OptionSamples ==
    {NoOptions} \cup {[hasHeaders |-> TRUE, headers |-> [h \in n |-> "caller"]] :
                        n \in SUBSET CallerHeaderNames}

\* { ...a, ...b }
Spread(a, b) ==
    [h \in (DOMAIN a) \cup (DOMAIN b) |-> IF h \in DOMAIN b THEN b[h] ELSE a[h]]
\* The Cookie header a credential adds to a header object.
WithCookie(headers, cookies) ==
    IF StrTruthy(cookies) THEN Spread(headers, [h \in {"Cookie"} |-> "credential"])
    ELSE headers

\* node/worker: headers = { ...DEFAULT_HEADERS, ...options.headers };
\* if (cookies) headers['Cookie'] = cookies; fetch(url, {...options, headers})
RequestHeadersFetch(o, cookies) ==
    WithCookie(Spread(DEFAULT_HEADERS, o.headers), cookies)

\* axios: config = { url, headers: {...DEFAULT_HEADERS, ...options.headers},
\* withCredentials: true, ...options }: spreading options last replaces the
\* merged headers by options.headers whenever options has that key.  The
\* jar adds the Cookie header.
RequestHeadersAxios(o, cookies) ==
    WithCookie(IF o.hasHeaders THEN o.headers
               ELSE Spread(DEFAULT_HEADERS, o.headers), cookies)

RequestHeaders(v, o, cookies) ==
    IF v = "axios" THEN RequestHeadersAxios(o, cookies)
    ELSE RequestHeadersFetch(o, cookies)

\* What the catalog API answers: the connection fails, or a status arrives.
CatalogStatuses == {200, 404, 500}
CatalogResponses ==
    {[fail |-> TRUE, status |-> 0]}
        \cup {[fail |-> FALSE, status |-> st] : st \in CatalogStatuses}
\* Credentials the credential operation may have produced.
CookieSamples == {Null, Str(<<"a", "=", "1">>)}

CatalogIdle == [state |-> "idle", options |-> NoOptions, cookies |-> Null,
                headers |-> NoHeaders, result |-> "none", status |-> 0]

\* makeApiRequest builds the request and issues the catalog call.
MakeApiRequest(o, cookies) ==
    /\ catalog.state = "idle"
    /\ catalog' = [CatalogIdle EXCEPT !.state = "sent", !.options = o,
                                      !.cookies = cookies,
                                      !.headers = RequestHeaders(variant, o, cookies)]
    /\ UNCHANGED <<variant, proxyVars, credVars>>

\* The catalog call settles.  fetch resolves with the response whatever
\* its status and rejects on a connection failure only.  axiosInstance
\* (default validateStatus) also rejects on a status outside 2xx, and
\* makeApiRequest logs and rethrows.
CatalogSettles(r) ==
    /\ catalog.state = "sent"
    /\ catalog' =
          IF r.fail \/ (variant = "axios" /\ ~(r.status \in 200..299))
          THEN [catalog EXCEPT !.state = "settled", !.result = "threw",
                               !.status = r.status]
          ELSE [catalog EXCEPT !.state = "settled", !.result = "response",
                               !.status = r.status]
    /\ UNCHANGED <<variant, proxyVars, credVars>>

\* ------------------------------------------------- headers of CDN calls
\* Mutant: a CDN call that also carries the Cookie credential.
CdnHeadersWithCookie(call) ==
    Spread([h \in {"User-Agent", "Referer", "Origin"} |->
               CASE h = "User-Agent" -> "okhttp/4.12.0"
                 [] h = "Referer" -> "https://fmoviesunblocked.net/"
                 [] h = "Origin" -> "https://fmoviesunblocked.net"],
           [h \in {"Cookie"} |-> "credential"])

\* The headers object every CDN call of the stream and download handlers
\* is given (fetch, or the plain axios instance, which has no cookie jar),
\* with a Range entry on the ranged GETs.
CdnHeaders(call) ==
    Spread([h \in {"User-Agent", "Referer", "Origin"} |->
               CASE h = "User-Agent" -> "okhttp/4.12.0"
                 [] h = "Referer" -> "https://fmoviesunblocked.net/"
                 [] h = "Origin" -> "https://fmoviesunblocked.net"],
           IF call.range = <<>> THEN NoHeaders
           ELSE [h \in {"Range"} |-> "bytes=start-end"])

\* ---------------------------------------------------------- specifications
Init == variant \in Variants /\ ProxyInit /\ CredInit /\ catalog = CatalogIdle

\* The request arrives at a route and its handler starts.
StreamRoute ==
    pc = "idle" /\ \E u \in Urls, r \in RangeHeaders : StreamRequest(u, r)
DownloadRoute ==
    pc = "idle" /\ \E u \in Urls, r \in RangeHeaders : DownloadRequest(u, r)

\* One stream or download request against the CDN stub.
Next ==
    \/ StreamRoute
    \/ DownloadRoute
    \/ \E o \in ProbeOutcomes : ProbeReturn(o)
    \/ \E o \in ProbeOutcomes : FallbackReturn(o)
    \/ \E o \in BodyOutcomes : BodyReturn(o)

Spec == Init /\ [][Next]_vars

\* Requests the relay is exercised with: an allowed URL, with and without
\* a Range header.
RelayUrls == {[origin |-> "https://bcdnw.hakunaymatata.com/", path |-> "v.mp4"]}
RelayRanges == {NoRange, [present |-> TRUE, text |-> <<"0", "-">>]}
RelayStreamRoute ==
    pc = "idle" /\ \E u \in RelayUrls, r \in RelayRanges : StreamRequest(u, r)
RelayDownloadRoute ==
    pc = "idle" /\ \E u \in RelayUrls, r \in RelayRanges : DownloadRequest(u, r)

\* One stream or download request through to the end of its relay.
NextRelay ==
    \/ RelayStreamRoute
    \/ RelayDownloadRoute
    \/ \E o \in ProbeOutcomes : ProbeReturn(o)
    \/ \E o \in ProbeOutcomes : FallbackReturn(o)
    \/ \E o \in BodyOutcomes : BodyReturn(o)
    \/ UpstreamData
    \/ ClientWrite
    \/ UpstreamEnd
    \/ UpstreamError
    \/ ClientClose

SpecRelay == Init /\ [][NextRelay]_vars

\* Concurrent catalog requests sharing the credential cache.
NextCred ==
    \/ \E c \in Callers : GetCookies(c)
    \/ \E c \in Callers, o \in BootstrapOutcomes : BootstrapReturn(c, o)
    \/ \E c \in Callers : EnsureCookiesAreAssigned(c)
    \/ \E c \in Callers, o \in BootstrapOutcomes : EnsureReturn(c, o)
    \/ \E c \in Callers, o \in CatalogOutcomes : CatalogReturn(c, o)
    \/ Tick

SpecCred == Init /\ [][NextCred]_vars

\* A stream or download request handled while a catalog request of the
\* same process goes through the credential cache.
NextServer ==
    \/ NextRelay
    \/ GetCookies("r1")
    \/ \E o \in BootstrapOutcomes : BootstrapReturn("r1", o)
    \/ EnsureCookiesAreAssigned("r1")
    \/ \E o \in BootstrapOutcomes : EnsureReturn("r1", o)
    \/ \E o \in CatalogOutcomes : CatalogReturn("r1", o)

SpecServer == Init /\ [][NextServer]_vars

\* One call of the catalog request helper.
NextCatalog ==
    \/ \E o \in OptionSamples, ck \in CookieSamples : MakeApiRequest(o, ck)
    \/ \E r \in CatalogResponses : CatalogSettles(r)

SpecCatalog == Init /\ [][NextCatalog]_vars


\* ================================================================ claims
\* Vocabulary of the claims.
KnownCdnOrigins == {"https://bcdnw.hakunaymatata.com/",
                    "https://valiw.hakunaymatata.com/",
                    "https://bcdnxw.hakunaymatata.com/"}
Received == req.mode # "none"
LastCall == calls[Len(calls)]
\* The text "s-e", "s-" and "-K" of a Range header.
TextRange(s, e) == ToDec(s) \o <<"-">> \o ToDec(e)
TextFrom(s) == ToDec(s) \o <<"-">>
TextSuffix(k) == <<"-">> \o ToDec(k)
HasRange(t) == req.range = [present |-> TRUE, text |-> t]
\* The handler has learned a usable total length n.
Probed(n) == fileSize = [nan |-> FALSE, v |-> n] /\ n > 0
Sizes == 1..MaxSize
\* Handlers that read the Range header at all.
RangeAware == req.mode = "stream" \/ (req.mode = "download" /\ variant = "worker")
\* The response framed as the partial window [s, e] of n bytes.
Framed206(s, e, n) ==
    /\ resp.status = 206
    /\ resp.contentRange = <<[star |-> FALSE, start |-> [nan |-> FALSE, v |-> s],
                              end |-> [nan |-> FALSE, v |-> e],
                              size |-> [nan |-> FALSE, v |-> n]]>>
    /\ resp.contentLength = <<[nan |-> FALSE, v |-> e - s + 1]>>
    /\ resp.acceptRanges
\* The last upstream call is a GET of exactly bytes=s-e.
AskedUpstream(s, e) ==
    /\ calls # <<>>
    /\ LastCall = [method |-> "GET", url |-> req.url,
                   range |-> <<[start |-> [nan |-> FALSE, v |-> s],
                                end |-> [nan |-> FALSE, v |-> e]]>>]
\* A window [s, e] of n bytes was negotiated: the ranged GET is the last
\* call, the response is 206 once the body is relayed, and no other media
\* status or 416 is ever produced for the request (500 on a failed body GET).
ServesWindow(s, e, n) ==
    /\ AskedUpstream(s, e)
    /\ resp.status \in {0, 206, 500}
    /\ (pc = "relay" => resp.status = 206)
    /\ (resp.status = 206 => Framed206(s, e, n))

\* C1: for /api/stream and /api/download in every variant, a request whose
\* url is missing or does not begin with an allowed CDN origin is answered
\* 400 and issues no upstream call.
C1_AllowListRejects ==
    (Received /\ req.url.origin \notin KnownCdnOrigins)
        => (resp.status = 400 /\ calls = <<>>)

\* C2: stream, probed length n, Range bytes=s-e with 0 <= s <= e < n: the
\* CDN is asked for exactly bytes=s-e and the answer is 206 with
\* Content-Range bytes s-e/n, Content-Length e-s+1 and Accept-Ranges.
C2_ValidRangeServed ==
    \A n \in Sizes, s \in 0..MaxSize, e \in 0..MaxSize :
        (req.mode = "stream" /\ Probed(n) /\ HasRange(TextRange(s, e))
            /\ s <= e /\ e < n)
            => ServesWindow(s, e, n)
C2_Witness ==
    /\ req.mode = "stream" /\ pc = "relay" /\ Probed(3)
    /\ HasRange(<<"1", "-", "2">>) /\ resp.status = 206 /\ resp.body = "stream"

\* C3: stream, no Range header, probed length n > 0: the body GET carries
\* no Range header (the whole resource, bytes 0 to n-1, is asked for) and
\* the answer is 200 with Content-Length n and Accept-Ranges and no
\* Content-Range.
C3_FullBodyServed ==
    \A n \in Sizes :
        (req.mode = "stream" /\ Probed(n) /\ ~req.range.present)
            => /\ calls # <<>>
               /\ LastCall = [method |-> "GET", url |-> req.url, range |-> <<>>]
               /\ resp.status \in {0, 200, 500}
               /\ (pc = "relay" => resp.status = 200)
               /\ (resp.status = 200 =>
                     /\ resp.contentLength = <<[nan |-> FALSE, v |-> n]>>
                     /\ resp.acceptRanges
                     /\ resp.contentRange = <<>>)
C3_Witness ==
    /\ req.mode = "stream" /\ pc = "relay" /\ Probed(2)
    /\ ~req.range.present /\ resp.status = 200 /\ resp.body = "stream"

\* Range negotiation as the claims state it: a bound that is present must
\* be a decimal number; the omitted end is n-1, the omitted start makes the
\* suffix form; satisfiable iff 0 <= start <= end < n.
TextParts(t) == SplitDash(t)
StartText(t) == TextParts(t)[1]
EndText(t) == IF Len(TextParts(t)) >= 2 THEN TextParts(t)[2] ELSE <<>>
FailsToParse(x) == x # <<>> /\ DigitPrefixLen(x) = 0
BothBoundsGiven(t) == DigitPrefixLen(StartText(t)) > 0 /\ DigitPrefixLen(EndText(t)) > 0
GivenStart(t) == DecValue(SubSeq(StartText(t), 1, DigitPrefixLen(StartText(t))))
GivenEnd(t) == DecValue(SubSeq(EndText(t), 1, DigitPrefixLen(EndText(t))))
ClaimUnsatisfiable(t, n) ==
    \/ FailsToParse(StartText(t))
    \/ FailsToParse(EndText(t))
    \/ BothBoundsGiven(t) /\ (GivenStart(t) > GivenEnd(t) \/ GivenEnd(t) >= n)

\* C4: in every variant of the range handling, a Range header whose
\* resolved start > end, or end >= total length, or one of whose bounds
\* fails to parse as a non-negative integer, is answered 416, never 206,
\* and no body GET is issued for it.
C4_UnsatisfiableIs416 ==
    \A n \in Sizes :
        (RangeAware /\ Probed(n) /\ req.range.present
            /\ ClaimUnsatisfiable(req.range.text, n))
            => (resp.status = 416 /\ pc = "done")


C6_OpenEndedServed ==
    \A n \in Sizes, x \in 0..MaxSize :
        /\ (RangeAware /\ Probed(n) /\ HasRange(TextFrom(x)) /\ x < n)
              => ServesWindow(x, n - 1, n)
        /\ (RangeAware /\ Probed(n) /\ HasRange(TextSuffix(x)) /\ 0 < x /\ x < n)
              => ServesWindow(n - x, n - 1, n)
C6_Witness ==
    /\ req.mode = "stream" /\ pc = "relay" /\ Probed(3)
    /\ HasRange(<<"-", "1">>) /\ resp.status = 206
    /\ win = [start |-> [nan |-> FALSE, v |-> 2], end |-> [nan |-> FALSE, v |-> 2]]

\* C7: a suffix range bytes=-k with k greater than the total length n is
\* answered 416 in every variant, and no response is emitted with a negative
\* start in Content-Range or a Content-Length greater than n.
C7_OversizedSuffixIs416 ==
    /\ \A n \in Sizes, k \in 0..MaxSize :
          (RangeAware /\ Probed(n) /\ HasRange(TextSuffix(k)) /\ k > n)
              => (resp.status = 416 /\ pc = "done")
    /\ (resp.status \in {200, 206} /\ ~fileSize.nan) =>
          /\ \A i \in 1..Len(resp.contentRange) :
                resp.contentRange[i].start.nan \/ resp.contentRange[i].start.v >= 0
          /\ \A i \in 1..Len(resp.contentLength) :
                resp.contentLength[i].nan \/ resp.contentLength[i].v <= fileSize.v

\* What the stream handler of variant v answers for Range header r and
\* length fs: status, Content-Range and Content-Length.
StreamFraming(v, r, fs) ==
    IF ~r.present
    THEN [status |-> 200, contentRange |-> <<>>, contentLength |-> <<fs>>]
    ELSE LET w == ResolveRange(r.text, fs)
         IN IF RangeInvalid(v, w, fs)
            THEN [status |-> 416, contentRange |-> <<ContentRangeStar(fs)>>,
                  contentLength |-> <<>>]
            ELSE [status |-> 206, contentRange |-> <<ContentRange(w, fs)>>,
                  contentLength |-> <<ChunkSize(w)>>]

\* C8: /api/download has the range semantics of /api/stream in every
\* variant: for the same Range header and length it answers with the same
\* status, Content-Range and Content-Length, plus Content-Disposition.
C8_DownloadSameAsStream ==
    \A n \in Sizes :
        (req.mode = "download" /\ resp.sent /\ resp.status \in {200, 206, 416}
            /\ (Probed(n) \/ (fileSize.nan /\ resp.contentLength = <<Num(n)>>)))
            => /\ [status |-> resp.status, contentRange |-> resp.contentRange,
                   contentLength |-> resp.contentLength]
                    = StreamFraming(variant, req.range, Num(n))
               /\ (resp.status # 416 => resp.disposition)

\* The cached credential of the running variant, by the clock.
CredCached == IF variant = "axios" THEN jar.set ELSE cookieCache.set
CredAge == IF variant = "axios" THEN now - jarTime ELSE now - cookieCacheTime
CallStarts(c) == cpc[c] = "idle" /\ cpc'[c] # "idle"

\* C9: while a credential is cached and now - acquiredAt < 1 hour, a
\* getCookies call returns the cached string unchanged, issues no bootstrap
\* call and leaves the cache as it is; the cached string changes only when
\* a bootstrap call returns.
C9_FreshCacheServed ==
    [][/\ \A c \in Callers :
             (variant \in {"node", "worker"} /\ CallStarts(c) /\ cookieCache.set
                 /\ cookieCache.val # <<>> /\ now - cookieCacheTime < 3600000)
                 => /\ cpc'[c] = "catalog"
                    /\ ret'[c] = [kind |-> "string", val |-> cookieCache.val, boots |-> 0]
                    /\ bootstrapCalls' = bootstrapCalls
                    /\ cookieCache' = cookieCache
                    /\ cookieCacheTime' = cookieCacheTime
       /\ (cookieCache' # cookieCache) =>
             \E c \in Callers : cpc[c] = "bootstrap" /\ cpc'[c] = "catalog"
      ]_vars
C9_Witness ==
    /\ variant = "node" /\ bootstrapCalls = 1
    /\ cookieCache.set /\ now > cookieCacheTime /\ now - cookieCacheTime < 3600000
    /\ \E c \in Callers :
          cpc[c] = "catalog" /\ cnow[c] = now
              /\ ret[c] = [kind |-> "string", val |-> cookieCache.val, boots |-> 0]

\* C10: in every variant, a credential request made when the cached
\* credential is at least 1 hour old issues exactly one bootstrap call:
\* one when the request starts and none further until it returns.
C10_ExpiredTriggersOneBootstrap ==
    [][\A c \in Callers :
          /\ (CallStarts(c) /\ CredCached /\ CredAge >= 3600000)
                => (cpc'[c] = "bootstrap" /\ bootstrapCalls' = bootstrapCalls + 1)
          /\ (cpc[c] = "bootstrap" /\ cpc'[c] # "bootstrap")
                => (bootstrapCalls' = bootstrapCalls /\ ret'[c].boots = 1)
      ]_vars

\* A credential call of caller c returns and its catalog fetch goes out.
CallReturns(c) == cpc[c] # "catalog" /\ cpc'[c] = "catalog"

\* C11: a credential that is returned to a caller and attached to its
\* catalog request was acquired less than 1 hour before the call that
\* returned it, in every variant.
C11_NeverServesStale ==
    [][\A c \in Callers :
          (CallReturns(c) /\ api'[c].cookie.set)
              => IF variant = "axios"
                 THEN now' - jarTime' < 3600000
                 ELSE cnow'[c] - cookieCacheTime' < 3600000
      ]_vars

\* The bootstrap call of caller c has thrown and its credential operation
\* ends in this step.
BootstrapThrew(c) ==
    cpc[c] = "bootstrap" /\ cpc'[c] # "bootstrap" /\ api'[c].logged

\* C12: when the bootstrap call throws, the credential operation does not
\* fail its caller, it returns the credential the cache held (a string, or
\* none when the cache was empty), and the cached credential and its
\* timestamp are unchanged.
C12_BootstrapFailureReturnsCache ==
    [][\A c \in Callers :
          BootstrapThrew(c)
              => /\ ret'[c].kind # "threw"
                 /\ variant \in {"node", "worker"}
                        => ret'[c] = [kind |-> IF cookieCache.set THEN "string"
                                               ELSE "null",
                                      val |-> cookieCache.val, boots |-> 1]
                 /\ cookieCache' = cookieCache
                 /\ cookieCacheTime' = cookieCacheTime
                 /\ jar' = jar
                 /\ jarTime' = jarTime
      ]_vars

\* C13: in every variant, when the bootstrap call of a catalog endpoint
\* request fails, the catalog call is still issued, without a Cookie
\* header, and the request is not answered 500 by the bootstrap failure.
C13_BootstrapFailureNotAnError ==
    [][\A c \in Callers :
          BootstrapThrew(c)
              => /\ api'[c].issued
                 /\ ~api'[c].cookie.set
                 /\ api'[c].status # 500
      ]_vars

\* The bootstrap call of caller c has returned a response without any
\* Set-Cookie header and its credential operation ends in this step.
BootstrapBare(c) ==
    /\ cpc[c] = "bootstrap" /\ cpc'[c] # "bootstrap"
    /\ ~api'[c].logged /\ api'[c].setCookieHeaders = 0

\* C14: when a bootstrap response carries no Set-Cookie header, the cached
\* credential and its timestamp stay as they were (never replaced by an
\* empty value); if no credential was cached, getCookies returns none and
\* the catalog request goes out with no Cookie header.
C14_NoSetCookieKeepsCache ==
    [][\A c \in Callers :
          BootstrapBare(c)
              => /\ cookieCache' = cookieCache
                 /\ cookieCacheTime' = cookieCacheTime
                 /\ jar' = jar
                 /\ (variant \in {"node", "worker"} /\ ~cookieCache.set)
                        => /\ ret'[c] = [kind |-> "null", val |-> <<>>, boots |-> 1]
                           /\ api'[c].issued /\ ~api'[c].cookie.set
                 /\ (variant = "axios" /\ ~jar.set)
                        => (api'[c].issued /\ ~api'[c].cookie.set)
      ]_vars
C14_Witness ==
    /\ variant = "node"
    /\ cookieCache.set /\ cookieCache.val # <<>>
    /\ \E c \in Callers :
          /\ cpc[c] = "catalog" /\ ret[c].boots = 1
          /\ ~api[c].logged /\ api[c].setCookieHeaders = 0
          /\ cookieCacheTime < cnow[c]

\* C15: in the stream and the download handler of every variant, once the
\* client connection has closed during the relay the upstream body stream
\* is no longer open: the disconnect has destroyed or cancelled it.
C15_DisconnectEndsUpstream ==
    (req.mode \in {"stream", "download"} /\ client = "closed")
        => upstream # "open"

\* C16: once the upstream body stream has errored after the response
\* headers were sent, the client connection does not stay open with a
\* truncated body and nothing left to write: the response is closed.
C16_UpstreamErrorClosesClient ==
    (upstream = "errored" /\ resp.sent /\ buf = <<>>)
        => (client # "open" \/ resp.ended)

\* C17: in every variant, no 200/206 response head is committed while the
\* body GET is still pending, and when the body GET fails at connection
\* level the client is answered 500 with a JSON error body.
C17_BodyFailureIs500 ==
    [][/\ pc = "body" => ~resp.sent
       /\ (pc = "body" /\ pc' = "done")
             => (resp'.status = 500 /\ resp'.body = "json" /\ resp'.sent)
      ]_vars

\* The handler holds a usable total length after this step.
LengthKnown == ~fileSize'.nan /\ fileSize'.v > 0

\* C18: in every variant, the step that ends the HEAD probe of a stream
\* request either leaves the handler with a usable length or issues the
\* fallback GET with Range: bytes=0-0; and a request is answered 500 after
\* the fallback only if the fallback gave no usable length either.
C18_HeadFallsBackToRangedGet ==
    [][/\ (req.mode = "stream" /\ pc = "probe" /\ pc' # "probe")
             => \/ LengthKnown
                \/ /\ pc' = "fallback"
                   /\ calls'[Len(calls')] =
                         [method |-> "GET", url |-> req.url,
                          range |-> <<[start |-> [nan |-> FALSE, v |-> 0],
                                       end |-> [nan |-> FALSE, v |-> 0]]>>]
       /\ (req.mode = "stream" /\ pc = "fallback" /\ resp'.status = 500)
             => ~LengthKnown
      ]_vars

\* C19: in stream and in download mode, when probing ends without a
\* usable total length (the probe failed or carried none), the request is
\* answered 500 with a JSON body, no body GET goes upstream and no 200/206
\* head is sent.
C19_NoMetadataIs500 ==
    [][(/\ req.mode \in {"stream", "download"}
        /\ pc \in {"probe", "fallback"} /\ pc' \notin {"probe", "fallback"}
        /\ ~LengthKnown)
          => /\ resp'.status = 500 /\ resp'.body = "json" /\ resp'.sent
             /\ calls' = calls
             /\ pc' = "done"
      ]_vars

RefreshCompletes(c) == cpc[c] = "bootstrap" /\ cpc'[c] # "bootstrap"
\* The credential string of a bootstrap response with k Set-Cookie headers.
SampleCredential(k) ==
    IF k = 1 THEN <<"a", "=", "1">>
    ELSE <<"a", "=", "2", ";", " ", "b", "=", "1">>
\* The strings a single bootstrap response of the model can leave in the
\* cache, on either way of reading its headers.
SampleCredentials ==
    {<<"a", "=", "1">>,
     <<"a", "=", "2", ";", " ", "b", "=", "1">>,
     <<"a", "=", "2", ",", " ", " ", "b", "=", "1">>}

C22_ProbeBeforeBody ==
    (req.mode \in {"stream", "download"} /\ pc \in {"body", "relay"})
        => /\ Len(calls) >= 2
           /\ calls[1].method = "HEAD"
           /\ ~fileSize.nan /\ fileSize.v > 0

\* C23: every catalog request goes out with the base header set merged
\* with the caller's headers: a base header the caller did not supply is
\* sent with its base value, and a header the caller supplied is sent with
\* the caller's value.
C23_HeadersMerged ==
    catalog.state # "idle"
        => /\ \A h \in {"Accept-Language", "Referer", "Connection", "X-Real-IP"} :
                 h \notin DOMAIN catalog.options.headers
                    => /\ h \in DOMAIN catalog.headers
                       /\ catalog.headers[h] =
                             (CASE h = "Accept-Language" -> "en-US,en;q=0.5"
                                [] h = "Referer" -> "HOST_URL"
                                [] h = "Connection" -> "keep-alive"
                                [] h = "X-Real-IP" -> "1.1.1.1")
           /\ \A h \in DOMAIN catalog.options.headers :
                 h \in DOMAIN catalog.headers /\ catalog.headers[h] = "caller"

\* C24: in every variant the catalog request helper hands an upstream
\* response to its caller as a value whatever its status, 2xx or not, and
\* raises an error only when the connection failed.
C24_Non2xxReturned ==
    catalog.state = "settled"
        => /\ catalog.status \in {200, 404, 500} => catalog.result = "response"
           /\ catalog.status = 0 => catalog.result = "threw"

\* C25: every call the stream and download handlers send to the CDN
\* carries the fixed Referer/Origin pair and no Cookie header, and a step of
\* these handlers leaves the credential cache as it is and issues no
\* bootstrap call.
C25_CredentialForCatalogOnly ==
    [][/\ \A i \in 1..Len(calls') :
             /\ "Cookie" \notin DOMAIN CdnHeaders(calls'[i])
             /\ {"Referer", "Origin"} \subseteq DOMAIN CdnHeaders(calls'[i])
             /\ CdnHeaders(calls'[i])["Referer"] = "https://fmoviesunblocked.net/"
             /\ CdnHeaders(calls'[i])["Origin"] = "https://fmoviesunblocked.net"
       /\ (proxyVars' # proxyVars)
             => /\ cookieCache' = cookieCache
                /\ cookieCacheTime' = cookieCacheTime
                /\ cookiesInitialized' = cookiesInitialized
                /\ jar' = jar
                /\ bootstrapCalls' = bootstrapCalls
                /\ cpc' = cpc /\ ret' = ret /\ api' = api
      ]_vars
\* A credential is cached and a request has sent its probe and its body
\* GET to the CDN.
C25_Witness ==
    /\ CredCached /\ bootstrapCalls = 1
    /\ pc = "relay" /\ Len(calls) = 2 /\ calls[2].range # <<>>

\* C26: after a bootstrap response with k >= 1 Set-Cookie headers the
\* credential stored by getCookies is the k name=value prefixes of the
\* headers, in header order, joined with "; ", whichever way the headers
\* were read.
C26_CredentialIsJoinedPairs ==
    [][\A c \in Callers :
          (RefreshCompletes(c) /\ variant \in {"node", "worker"}
              /\ api'[c].setCookieReceived >= 1)
              => cookieCache' =
                   [set |-> TRUE,
                    val |-> IF api'[c].setCookieReceived = 1
                            THEN <<"a", "=", "1">>
                            ELSE <<"a", "=", "2", ";", " ", "b", "=", "1">>]
      ]_vars

\* C27: when the handler of a stream or download request that passed the
\* allow-list has nothing left to do, the client response has been ended
\* or the connection is closed - also after a failed probe, body GET or
\* upstream body stream.
C27_RequestReachesTerminal ==
    (req.mode \in {"stream", "download"} /\ pc = "done")
        => (resp.ended \/ client # "open")

\* C28: cookieCacheTime never decreases: no step of overlapping getCookies
\* refreshes replaces the stored timestamp (and with it the credential of
\* a refresh that started later) by the timestamp of a refresh that
\* started earlier.
C28_CacheTimeMonotonic ==
    [][cookieCacheTime' >= cookieCacheTime]_vars

\* C29: a 206 or 200 head for a stream or download request is committed
\* only when the upstream body GET itself answered with that window: 206
\* behind a client-facing 206, a 2xx status behind a client-facing 200.
C29_FramingMatchesUpstream ==
    (req.mode \in {"stream", "download"} /\ resp.sent /\ resp.status \in {200, 206})
        => IF resp.status = 206
           THEN bodyStatus = 206
           ELSE bodyStatus \in 200..299

\* C30: a getCookies refresh that fails or whose response carries no
\* Set-Cookie leaves cookieCacheTime unchanged, and every getCookies call
\* made while the cache is empty or at least 1 hour old issues a new
\* bootstrap call of its own, however many refreshes failed before.
C30_FailedRefreshIsRetried ==
    [][\A c \in Callers :
          /\ (/\ variant \in {"node", "worker"}
              /\ cpc[c] = "bootstrap" /\ cpc'[c] # "bootstrap"
              /\ (api'[c].logged \/ api'[c].setCookieReceived = 0))
                => cookieCacheTime' = cookieCacheTime
          /\ (/\ variant \in {"node", "worker"}
              /\ CallStarts(c)
              /\ (\/ ~cookieCache.set
                  \/ cookieCache.val = <<>>
                  \/ now - cookieCacheTime >= 3600000))
                => /\ cpc'[c] = "bootstrap"
                   /\ bootstrapCalls' = bootstrapCalls + 1
                   /\ cookieCacheTime' = cookieCacheTime
      ]_vars
C30_Witness ==
    /\ variant = "worker"
    /\ bootstrapCalls = 3
    /\ ~cookieCache.set /\ cookieCacheTime = 0
    /\ cpc["r1"] = "bootstrap"
    /\ cpc["r2"] = "idle" /\ api["r2"] = NoApi /\ ret["r2"] = NoResult

====
